---- MODULE Spec2Model ----
(***************************************************************************)
(* A model of the IndiaMART scraper (src/scraper.py): URL normalisation,   *)
(* link classification, card resolution, pagination, navigation with      *)
(* retries, the per-category traversal, the run over all categories and   *)
(* the final deduplication.                                                *)
(*                                                                         *)
(* Strings are modelled at the granularity the code inspects them.  A URL  *)
(* or href is a record                                                     *)
(*   [form, ws, scheme, netloc, path]                                      *)
(* where form says how the text starts ("abs": "http...", "protorel":      *)
(* "//...", "rel": anything else, "blank": no characters besides white     *)
(* space, "none": Python's None), ws says whether white space surrounds    *)
(* the text, netloc is a sequence of atoms (pieces of the host text) and   *)
(* path is a sequence of atoms in which "/" is the separator character.    *)
(* Page text is a sequence of lines, a line a sequence of word atoms.      *)
(***************************************************************************)
EXTENDS Integers, Sequences, FiniteSets, TLC

VARIABLES
  sup_pc, sup_url, sup_result       \* looks_like_supplier_url: position, argument, return value

VARIABLES
  dd_pc, dd_rows, dd_unique, dd_again   \* deduplication: position, all_rows, unique, unique of unique

VARIABLES
  cd_pc, cd_doc, cd_cards   \* card resolution: position, document, the card found for each product link so far

VARIABLES
  nx_pc, nx_doc, nx_current, nx_result   \* find_next_page_url: position, soup, current_url, return value

VARIABLES
  pc,            \* position of the run: main, cat, goto, links, ret, dedup, done, exit
  web,           \* what the site serves: page URL -> index into PageDocs
  max_listings,  \* args.max_listings (an optional number)
  max_pages,     \* args.max_pages
  cat_idx,       \* position in CATEGORY_URLS
  remaining,     \* main's remaining (an optional number)
  all_rows,      \* main's all_rows
  rows, seen_pages, current_url, page_idx, cap,   \* scrape_category's locals and its max_listings
  attempt,       \* goto_with_retries' loop variable
  outcomes,      \* the page.goto calls of the current goto_with_retries call, in order
  sleeps,        \* the time.sleep calls of the current goto_with_retries call, in order
  link_idx,      \* product links of the current page already processed
  cat_nav,       \* URLs handed to goto_with_retries in the current traversal
  navigated,     \* URLs handed to goto_with_retries in the whole run
  end_reason,    \* how the last traversal left its page loop
  unique,        \* the rows written to the CSV
  written,       \* whether the CSV has been written
  exit_code      \* the process exit status

supVars == <<sup_pc, sup_url, sup_result>>

ddVars == <<dd_pc, dd_rows, dd_unique, dd_again>>

cdVars == <<cd_pc, cd_doc, cd_cards>>

nxVars == <<nx_pc, nx_doc, nx_current, nx_result>>

runVars ==
  <<pc, web, max_listings, max_pages, cat_idx, remaining, all_rows, rows, seen_pages, current_url, page_idx,
    cap, attempt, outcomes, sleeps, link_idx, cat_nav, navigated, end_reason, unique, written,
    exit_code>>

vars == <<supVars, ddVars, cdVars, nxVars, runVars>>

\* ------------------------------------------------------------------ bounds

\* longest path (in atoms) of the URLs given to looks_like_supplier_url
MaxPathAtoms == 4

\* longest list of collected rows given to the deduplication
MaxRows == 4

\* most nodes of an enumerated document tree
MaxNodes == 6

\* how far the deep documents exceed the resolver's ancestor limit
MaxExtraDepth == 2

\* most anchors of a document given to find_next_page_url
MaxAnchors == 2

\* largest --max-listings and --max-pages tried
MaxCap == 3

MaxPagesArg == 3

\* ------------------------------------------------------- generic helpers

Last(s) == s[Len(s)]

Front(s) == SubSeq(s, 1, Len(s) - 1)

Range(s) == {s[i] : i \in DOMAIN s}

RECURSIVE SeqsUpTo(_, _)
SeqsUpTo(S, n) ==
  IF n = 0 THEN {<<>>}
  ELSE LET shorter == SeqsUpTo(S, n - 1)
       IN  shorter \cup {Append(s, x) : s \in {t \in shorter : Len(t) = n - 1}, x \in S}

\* ------------------------------------------------------------ strings

NoneStr == [form |-> "none", ws |-> FALSE, scheme |-> "", netloc |-> <<>>, path |-> <<>>]

EmptyStr == [form |-> "blank", ws |-> FALSE, scheme |-> "", netloc |-> <<>>, path |-> <<>>]

BlankStr == [form |-> "blank", ws |-> TRUE, scheme |-> "", netloc |-> <<>>, path |-> <<>>]

AbsUrl(scheme, netloc, path) ==
  [form |-> "abs", ws |-> FALSE, scheme |-> scheme, netloc |-> netloc, path |-> path]

RelRef(path) ==
  [form |-> "rel", ws |-> FALSE, scheme |-> "", netloc |-> <<>>, path |-> path]

\* the variables of an operation that a specification does not exercise
SupIdle == sup_pc = "idle" /\ sup_url = EmptyStr /\ sup_result = FALSE

DdIdle == dd_pc = "idle" /\ dd_rows = <<>> /\ dd_unique = <<>> /\ dd_again = <<>>

\* a document is a record of sequences indexed by node, nodes numbered in
\* document order; node 1 is the BeautifulSoup object, whose parent is None (0)
EmptyDoc ==
  [parent |-> <<0>>, name |-> <<"[document]">>, href |-> <<NoneStr>>, rel |-> <<FALSE>>,
   text |-> <<(<<>>)>>]

CdIdle == cd_pc = "idle" /\ cd_doc = EmptyDoc /\ cd_cards = <<>>

ProdUrl(slug) == AbsUrl("https", <<"www.", "indiamart.com">>, <<"/", "proddetail", "/", slug>>)

NxIdle == nx_pc = "idle" /\ nx_doc = EmptyDoc /\ nx_current = EmptyStr /\ nx_result = NoneStr

\* a listing; the text fields are sequences of words, empty for ""
Row(title, price, supplier, location, category, url) ==
  [title |-> title, price |-> price, supplier |-> supplier, location |-> location,
   category |-> category, url |-> url]

\* an optional number: Python's None or an int
NoneInt == [some |-> FALSE, v |-> 0]

Some(n) == [some |-> TRUE, v |-> n]

RunIdle ==
  /\ pc = "idle" /\ web = <<>> /\ max_listings = NoneInt /\ max_pages = 0 /\ cat_idx = 0
  /\ remaining = NoneInt
  /\ all_rows = <<>> /\ rows = <<>> /\ seen_pages = {} /\ current_url = EmptyStr
  /\ page_idx = 0 /\ cap = NoneInt /\ attempt = 0 /\ outcomes = <<>> /\ sleeps = <<>>
  /\ link_idx = 0 /\ cat_nav = <<>> /\ navigated = <<>> /\ end_reason = ""
  /\ unique = <<>> /\ written = FALSE /\ exit_code = 0

\* Python truthiness of a str-or-None value
Truthy(s) == s.form \notin {"none"} /\ s # EmptyStr

\* str.strip()
Strip(s) == IF s.form = "blank" THEN EmptyStr ELSE [s EXCEPT !.ws = FALSE]

\* str.lower() on one atom
LowerAtom(a) ==
  CASE a = "INDIAMART.COM" -> "indiamart.com"
    [] a = "WWW." -> "www."
    [] a = "ProdDetail" -> "proddetail"
    [] a = "Company" -> "company"
    [] a = "Search" -> "search"
    [] a = "Next" -> "next"
    [] a = "NEXT" -> "next"
    [] a = "NextGen" -> "nextgen"
    [] a = "Rs" -> "rs"
    [] a = "Rs." -> "rs."
    [] OTHER -> a

Lower(s) == [i \in DOMAIN s |-> LowerAtom(s[i])]

\* str.strip("/") on a path
RECURSIVE LStripSlash(_)
LStripSlash(p) ==
  IF p # <<>> /\ Head(p) = "/" THEN LStripSlash(Tail(p)) ELSE p

RECURSIVE RStripSlash(_)
RStripSlash(p) ==
  IF p # <<>> /\ Last(p) = "/" THEN RStripSlash(Front(p)) ELSE p

StripSlash(p) == RStripSlash(LStripSlash(p))

\* str.split("/"): the pieces between separators, empty pieces included
RECURSIVE SplitSlash(_)
SplitSlash(p) ==
  IF \A i \in DOMAIN p : p[i] # "/" THEN <<p>>
  ELSE LET k == CHOOSE i \in DOMAIN p : p[i] = "/" /\ \A j \in 1..(i - 1) : p[j] # "/"
       IN  <<SubSeq(p, 1, k - 1)>> \o SplitSlash(SubSeq(p, k + 1, Len(p)))

\* str.startswith on a path, atom-wise
StartsWith(p, prefix) ==
  Len(p) >= Len(prefix) /\ SubSeq(p, 1, Len(prefix)) = prefix

\* urllib.parse.urljoin(base, ref) for a reference without scheme or netloc
Urljoin(base, ref) ==
  IF ~Truthy(base) \/ base.form = "blank" THEN ref
  ELSE IF ref.path = <<>> THEN base
  ELSE IF Head(ref.path) = "/" THEN [base EXCEPT !.path = ref.path]
  ELSE LET slashes == {i \in DOMAIN base.path : base.path[i] = "/"}
           dir == IF slashes = {} THEN <<"/">>
                  ELSE SubSeq(base.path, 1, CHOOSE i \in slashes : \A j \in slashes : j <= i)
       IN  [base EXCEPT !.path = dir \o ref.path]

\* ----------------------------------------------------- URL normalisation

WwwBase == AbsUrl("https", <<"www.", "indiamart.com">>, <<"/">>)

DirBase == AbsUrl("https", <<"dir.", "indiamart.com">>, <<"/">>)

normalize_any_url(href, base_url) ==
  IF ~Truthy(href) THEN EmptyStr
  ELSE LET h == Strip(href)
       IN  IF h.form = "protorel" THEN [h EXCEPT !.form = "abs", !.scheme = "https"]
           ELSE IF h.form = "abs" THEN h
           ELSE Urljoin(base_url, h)

normalize_indiamart_url(href, page_url) ==
  IF ~Truthy(href) THEN EmptyStr
  ELSE LET h == Strip(href)
       IN  IF h.form \in {"protorel", "abs"} THEN normalize_any_url(h, WwwBase)
           ELSE IF StartsWith(h.path, <<"/", "impcat", "/">>) \/ StartsWith(h.path, <<"impcat", "/">>)
                THEN normalize_any_url(h, DirBase)
           ELSE IF StartsWith(h.path, <<"/", "proddetail", "/">>) \/ StartsWith(h.path, <<"proddetail", "/">>)
                THEN normalize_any_url(h, WwwBase)
           ELSE IF StartsWith(h.path, <<"/", "company", "/">>) \/ StartsWith(h.path, <<"company", "/">>)
                THEN normalize_any_url(h, WwwBase)
           ELSE IF StartsWith(h.path, <<"/">>) THEN normalize_any_url(h, WwwBase)
           ELSE IF Truthy(page_url) THEN normalize_any_url(h, page_url)
           ELSE normalize_any_url(h, WwwBase)

\* -------------------------------------------------------- link classifier

\* urllib.parse.urlparse: the netloc and the path of a URL text; "raises"
\* when the netloc holds an unmatched bracket (ValueError: Invalid IPv6 URL)
urlparse(url) ==
  IF url.form \in {"abs", "protorel"}
  THEN [raises |-> "[" \in Range(url.netloc), netloc |-> url.netloc, path |-> url.path]
  ELSE [raises |-> FALSE, netloc |-> <<>>, path |-> url.path]

ReservedSegments == {<<"proddetail">>, <<"impcat">>, <<"search">>}

\* a variant that forgets the reserved first segments
looks_like_supplier_url_noreserved(url) ==
  LET parsed == urlparse(url)
      host == Lower(parsed.netloc)
      path == Lower(StripSlash(parsed.path))
  IN  IF parsed.raises THEN FALSE
      ELSE IF host = <<>> \/ Last(host) # "indiamart.com" THEN FALSE
      ELSE IF path = <<>> THEN FALSE
      ELSE IF SplitSlash(path)[1] = <<"company">> THEN TRUE
      ELSE Len(SplitSlash(path)) = 1

looks_like_supplier_url(url) ==
  LET parsed == urlparse(url)
      host == Lower(parsed.netloc)
      path == Lower(StripSlash(parsed.path))
      first == SplitSlash(path)[1]
  IN  IF parsed.raises THEN FALSE
      ELSE IF host = <<>> \/ Last(host) # "indiamart.com" THEN FALSE
      ELSE IF path = <<>> THEN FALSE
      ELSE IF first \in ReservedSegments THEN FALSE
      ELSE IF first = <<"company">> THEN TRUE
      ELSE Len(SplitSlash(path)) = 1

\* ------------------------------------------------------------ documents

Nodes(d) == DOMAIN d.parent

\* the proper ancestors of node n, nearest first (tag.parents)
RECURSIVE Parents(_, _)
Parents(d, n) ==
  IF d.parent[n] = 0 THEN <<>> ELSE <<d.parent[n]>> \o Parents(d, d.parent[n])

\* tag.descendants, in document order
Descendants(d, n) == SelectSeq([i \in Nodes(d) |-> i], LAMBDA m : n \in Range(Parents(d, m)))

\* re.compile(r"indiamart\.com/proddetail/").search(href)
MatchesProddetail(href) ==
  /\ href.form \in {"abs", "protorel"}
  /\ href.netloc # <<>> /\ Last(href.netloc) = "indiamart.com"
  /\ StartsWith(href.path, <<"/", "proddetail", "/">>)

IsProductLink(d, n) == d.name[n] = "a" /\ MatchesProddetail(d.href[n])

\* tag.find_all("a", href=proddetail_re)
FindProductLinks(d, n) == SelectSeq(Descendants(d, n), LAMBDA m : IsProductLink(d, m))

\* tag.find_all("a", href=True)
FindAnchors(d, n) ==
  SelectSeq(Descendants(d, n), LAMBDA m : d.name[m] = "a" /\ d.href[m].form # "none")

\* the stripped, non-empty strings below a tag, in document order
Strings(d, n) ==
  LET texts == SelectSeq(Descendants(d, n), LAMBDA m : d.name[m] = "#text" /\ d.text[m] # <<>>)
  IN  [i \in DOMAIN texts |-> d.text[texts[i]]]

\* tag.get_text(separator="\n", strip=True): one line per string
BlockText(d, n) == Strings(d, n)

RECURSIVE Flatten(_)
Flatten(lines) == IF lines = <<>> THEN <<>> ELSE Head(lines) \o Flatten(Tail(lines))

\* tag.get_text(strip=True) and tag.get_text(" ", strip=True): the words in order
GetText(d, n) == Flatten(Strings(d, n))

\* ------------------------------------------------------- card resolution

\* range(15) in both ancestor walks
MaxAncestorLevels == 15

\* a variant that stops at the first single-link ancestor
RECURSIVE CardWalk_first(_, _, _, _, _)
CardWalk_first(d, a, parent, card, left) ==
  IF left = 0 \/ parent = 0 \/ d.name[parent] = "body" THEN card
  ELSE LET proddetail_links == FindProductLinks(d, parent)
       IN  IF Len(proddetail_links) = 1 /\ proddetail_links[1] = a THEN parent
           ELSE CardWalk_first(d, a, d.parent[parent], card, left - 1)

\* the first ancestor walk from "parent" with "left" iterations to go
RECURSIVE CardWalk(_, _, _, _, _)
CardWalk(d, a, parent, card, left) ==
  IF left = 0 \/ parent = 0 \/ d.name[parent] = "body" THEN card
  ELSE LET proddetail_links == FindProductLinks(d, parent)
       IN  CardWalk(d, a, d.parent[parent],
                    IF Len(proddetail_links) = 1 /\ proddetail_links[1] = a THEN parent ELSE card,
                    left - 1)

\* the single-link pass; 0 is None
CardPrimary(d, a) == CardWalk(d, a, d.parent[a], 0, MaxAncestorLevels)

MkTree(ps, names) ==
  [parent |-> ps,
   name |-> names,
   href |-> [i \in DOMAIN ps |-> IF names[i] = "a" THEN ProdUrl("p1") ELSE NoneStr],
   rel |-> [i \in DOMAIN ps |-> FALSE],
   text |-> [i \in DOMAIN ps |-> <<>>]]

\* the trees with n nodes numbered in document order (a node's parent is its
\* predecessor or one of the predecessor's ancestors), made of div elements,
\* product links without children, and at most one body element anywhere
RECURSIVE TreeShapes(_)
TreeShapes(n) ==
  IF n = 1 THEN {[parent |-> <<0>>, name |-> <<"[document]">>]}
  ELSE UNION {
         {[parent |-> Append(t.parent, p), name |-> Append(t.name, nm)] :
            p \in {q \in {n - 1} \cup Range(Parents(t, n - 1)) : t.name[q] # "a"},
            nm \in {"div", "a"} \cup (IF "body" \in Range(t.name) THEN {} ELSE {"body"})} :
         t \in TreeShapes(n - 1)}

TreeDocs == UNION {{MkTree(t.parent, t.name) : t \in TreeShapes(n)} : n \in 1..MaxNodes}

\* a product link below k nested wrappers, below a body or not, with a second
\* product link as the last child of the j-th wrapper from the top (j = 0: none)
DeepDoc(k, j, withBody) ==
  LET off == IF withBody THEN 2 ELSE 1
      n == off + k + 1 + (IF j > 0 THEN 1 ELSE 0)
      names == [i \in 1..n |-> IF i = 1 THEN "[document]"
                               ELSE IF i <= off THEN "body"
                               ELSE IF i <= off + k THEN "div" ELSE "a"]
  IN  MkTree([i \in 1..n |-> IF i <= off + k + 1 THEN i - 1 ELSE off + j], names)

DeepDocs ==
  {DeepDoc(k, j, b) : k \in (MaxAncestorLevels - 1)..(MaxAncestorLevels + MaxExtraDepth),
                      j \in 0..(MaxAncestorLevels + MaxExtraDepth), b \in BOOLEAN}

InitCard ==
  /\ cd_pc = "links"
  /\ cd_doc \in TreeDocs \cup {d \in DeepDocs : \A i \in Nodes(d) : d.parent[i] < i}
  /\ cd_cards = <<>>
  /\ SupIdle /\ DdIdle /\ NxIdle /\ RunIdle

\* one iteration of "for a in soup.find_all(...)": the single-link pass for the next link
ResolveCard ==
  /\ cd_pc = "links"
  /\ LET links == FindProductLinks(cd_doc, 1)
     IN  /\ Len(cd_cards) < Len(links)
         /\ cd_cards' = Append(cd_cards, CardPrimary(cd_doc, links[Len(cd_cards) + 1]))
         /\ cd_pc' = IF Len(cd_cards) + 1 = Len(links) THEN "done" ELSE "links"
  /\ UNCHANGED <<cd_doc, supVars, ddVars, nxVars, runVars>>

NextCard == ResolveCard

SpecCard == InitCard /\ [][NextCard]_vars

\* ---- C6

\* the product links below node p, as a set
ProductLinkSet(d, p) == {m \in Nodes(d) : IsProductLink(d, m) /\ p \in Range(Parents(d, m))}

\* the ancestor levels of link a (1 = its parent) that lie below the nearest
\* enclosing body, are within the level limit, and hold no product link but a
SingleLinkLevels(d, a) ==
  LET P == Parents(d, a)
  IN  {l \in DOMAIN P : /\ l <= MaxAncestorLevels
                         /\ \A i \in 1..l : d.name[P[i]] # "body"
                         /\ ProductLinkSet(d, P[l]) = {a}}

\* node c and everything below it, with no body element among them
BodyFree(d, c) == \A m \in Nodes(d) : (m = c \/ c \in Range(Parents(d, m))) => d.name[m] # "body"

HasCurrencyMark(atom) == atom \in {"rupee", "Rs", "Rs."}

\* the second ancestor walk: the first ancestor whose text holds a currency mark
RECURSIVE FallbackWalk(_, _, _)
FallbackWalk(d, parent, left) ==
  IF left = 0 \/ parent = 0 \/ d.name[parent] = "body" THEN 0
  ELSE IF \E atom \in Range(Flatten(BlockText(d, parent))) : HasCurrencyMark(atom) THEN parent
  ELSE FallbackWalk(d, d.parent[parent], left - 1)

\* both passes; 0 is None
ResolveCardFor(d, a) ==
  LET card == CardPrimary(d, a)
  IN  IF card # 0 THEN card ELSE FallbackWalk(d, d.parent[a], MaxAncestorLevels)

\* ------------------------------------------------------ field extractors

\* len() of a word
AtomLen(atom) ==
  CASE atom = "ab" -> 2
    [] atom = "rupee" -> 1
    [] atom = ">" -> 1
    [] atom = "/" -> 1
    [] atom = "Rs" -> 2
    [] atom = "rs" -> 2
    [] atom = "Contact Supplier" -> 16
    [] OTHER -> 5

RECURSIVE StrLen(_)
StrLen(text) == IF text = <<>> THEN 0 ELSE AtomLen(Head(text)) + StrLen(Tail(text))

\* text[:n], cut between words
RECURSIVE Slice(_, _)
Slice(text, n) ==
  IF text = <<>> \/ AtomLen(Head(text)) > n THEN <<>>
  ELSE <<Head(text)>> \o Slice(Tail(text), n - AtomLen(Head(text)))

TitleMax == 500

SupplierMax == 200

LocationMax == 300

\* [\d,]+ and \w+ on one word
IsDigits(atom) == atom \in {"500", "900", "1,25,000"}

IsWord(atom) == atom \notin {"/", "rupee", ">", "Contact Supplier"}

\* the words of a block text with the line each stands on
RECURSIVE Positions(_, _)
Positions(lines, k) ==
  IF lines = <<>> THEN <<>>
  ELSE [i \in DOMAIN Head(lines) |-> [atom |-> Head(lines)[i], line |-> k]]
       \o Positions(Tail(lines), k + 1)

\* re.search of the price pattern (case ignored), then the first line of the match
extract_price(lines) ==
  LET ws == Positions(lines, 1)
      Starts(i) == /\ LowerAtom(ws[i].atom) \in {"rupee", "rs", "rs."}
                   /\ i + 1 <= Len(ws) /\ IsDigits(ws[i + 1].atom)
      hits == {i \in DOMAIN ws : Starts(i)}
  IN  IF hits = {} THEN <<>>
      ELSE LET i == CHOOSE h \in hits : \A g \in hits : h <= g
               unit == /\ ws[i].atom = "rupee"
                       /\ i + 3 <= Len(ws) /\ ws[i + 2].atom = "/" /\ IsWord(ws[i + 3].atom)
               last == IF unit THEN i + 3 ELSE i + 1
               match == SubSeq(ws, i, last)
               first == SelectSeq(match, LAMBDA w : w.line = ws[i].line)
           IN  [j \in DOMAIN first |-> first[j].atom]

\* the first non-empty line after the first "Contact Supplier"
extract_location(lines) ==
  LET ws == Positions(lines, 1)
      hits == {i \in DOMAIN ws : ws[i].atom = "Contact Supplier"}
  IN  IF hits = {} THEN <<>>
      ELSE LET i == CHOOSE h \in hits : \A g \in hits : h <= g
               after == SubSeq(ws, i + 1, Len(ws))
           IN  IF after = <<>> THEN <<>>
               ELSE LET first == SelectSeq(after, LAMBDA w : w.line = after[1].line)
                    IN  [j \in DOMAIN first |-> first[j].atom]

\* "/proddetail/" in supplier_href
HasProddetailPath(url) ==
  \E i \in DOMAIN url.path :
    i + 2 <= Len(url.path) /\ SubSeq(url.path, i, i + 2) = <<"/", "proddetail", "/">>

\* the loop over the anchors of the card that looks for the supplier link
RECURSIVE FindSupplier(_, _, _, _, _)
FindSupplier(d, anchors, href, title, cur_url) ==
  IF anchors = <<>> THEN <<>>
  ELSE LET supplier_href == normalize_indiamart_url(d.href[Head(anchors)], cur_url)
           supplier_text == GetText(d, Head(anchors))
       IN  IF \/ ~Truthy(supplier_href) \/ supplier_href = href
              \/ HasProddetailPath(supplier_href)
              \/ ~looks_like_supplier_url(supplier_href)
              \/ supplier_text = <<>> \/ supplier_text = title
           THEN FindSupplier(d, Tail(anchors), href, title, cur_url)
           ELSE Slice(supplier_text, SupplierMax)

\* a variant that drops a link for which no card is found
LinkRows_needscard(d, a, category_name, cur_url) ==
  LET title == GetText(d, a)
      card == ResolveCardFor(d, a)
  IN  IF title = <<>> \/ StrLen(title) < 3 \/ card = 0 THEN <<>>
      ELSE <<Row(Slice(title, TitleMax), extract_price(BlockText(d, card)),
                 FindSupplier(d, FindAnchors(d, card), normalize_indiamart_url(d.href[a], cur_url),
                              title, cur_url),
                 Slice(extract_location(BlockText(d, card)), LocationMax), category_name,
                 normalize_indiamart_url(d.href[a], cur_url))>>

\* the body of "for a in soup.find_all(...)": the rows one product link adds
LinkRows(d, a, category_name, cur_url) ==
  LET href == normalize_indiamart_url(d.href[a], cur_url)
      title == GetText(d, a)
      card == ResolveCardFor(d, a)
      block_text == BlockText(d, card)
      location == extract_location(block_text)
  IN  IF title = <<>> \/ StrLen(title) < 3 THEN <<>>
      ELSE IF card = 0 THEN <<Row(Slice(title, TitleMax), <<>>, <<>>, <<>>, category_name, href)>>
      ELSE <<Row(Slice(title, TitleMax), extract_price(block_text),
                 FindSupplier(d, FindAnchors(d, card), href, title, cur_url),
                 IF location # <<>> THEN Slice(location, LocationMax) ELSE <<>>,
                 category_name, href)>>

\* ------------------------------------------------------------ pagination

\* the category pages (CATEGORY_URLS) and a second page of the first category
CatUrlA == AbsUrl("https", <<"dir.", "indiamart.com">>, <<"/", "impcat", "/", "industrial-machinery.html">>)

CatUrlB == AbsUrl("https", <<"dir.", "indiamart.com">>, <<"/", "impcat", "/", "electronic-gadgets.html">>)

PageUrl2 == AbsUrl("https", <<"dir.", "indiamart.com">>, <<"/", "impcat", "/", "page2.html">>)

\* the text test of the anchor scan, on lower-cased words ("raquo" and
\* "rsaquo" stand for the double and single right angle quotation marks)
IsNextText(text) ==
  \/ text \in {<<"next">>, <<"next", ">">>, <<"next", "raquo">>, <<"rsaquo">>, <<"raquo">>, <<">">>}
  \/ text # <<>> /\ Head(text) \in {"next", "nextgen"}

\* the anchor scan: the first anchor with next-like text whose normalised
\* href is non-empty and differs from current_url
RECURSIVE ScanNextAnchors(_, _, _)
ScanNextAnchors(d, anchors, cur_url) ==
  IF anchors = <<>> THEN NoneStr
  ELSE LET a == Head(anchors)
           text == Lower(GetText(d, a))
           candidate == normalize_any_url(d.href[a], cur_url)
       IN  IF IsNextText(text) /\ Truthy(candidate) /\ candidate # cur_url
           THEN candidate
           ELSE ScanNextAnchors(d, Tail(anchors), cur_url)

find_next_page_url(soup, cur_url) ==
  LET relLinks == SelectSeq(Descendants(soup, 1), LAMBDA m : soup.name[m] = "a" /\ soup.rel[m])
      nxt == IF relLinks = <<>> THEN NoneStr ELSE soup.href[Head(relLinks)]
  IN  IF relLinks # <<>> /\ Truthy(nxt) /\ Truthy(Strip(nxt))
      THEN normalize_any_url(nxt, cur_url)
      ELSE ScanNextAnchors(soup, FindAnchors(soup, 1), cur_url)

\* a body holding the given anchors, each with one text string
MkNavDoc(anchors) ==
  LET n == 2 + 2 * Len(anchors)
      IsAnchor(i) == i > 2 /\ i % 2 = 1
      IsText(i) == i > 2 /\ i % 2 = 0
  IN  [parent |-> [i \in 1..n |-> IF i <= 2 THEN i - 1 ELSE IF IsAnchor(i) THEN 2 ELSE i - 1],
       name |-> [i \in 1..n |-> IF i = 1 THEN "[document]" ELSE IF i = 2 THEN "body"
                                 ELSE IF IsAnchor(i) THEN "a" ELSE "#text"],
       href |-> [i \in 1..n |-> IF IsAnchor(i) THEN anchors[(i - 1) \div 2].href ELSE NoneStr],
       rel |-> [i \in 1..n |-> IsAnchor(i) /\ anchors[(i - 1) \div 2].rel],
       text |-> [i \in 1..n |-> IF IsText(i) THEN anchors[(i - 2) \div 2].text ELSE <<>>]]

NavHrefs ==
  { NoneStr, BlankStr, CatUrlA, RelRef(<<"industrial-machinery.html">>),
    [CatUrlA EXCEPT !.form = "protorel", !.scheme = ""], RelRef(<<"page2.html">>) }

NavAnchors == [rel : BOOLEAN, href : NavHrefs, text : {<<"Next">>, <<">">>, <<"Prev">>}]

InitNext ==
  /\ nx_pc = "call"
  /\ nx_doc \in {MkNavDoc(as) : as \in SeqsUpTo(NavAnchors, MaxAnchors)}
  /\ nx_current \in {CatUrlA, PageUrl2}
  /\ nx_result = NoneStr
  /\ SupIdle /\ DdIdle /\ CdIdle /\ RunIdle

NextPageCall ==
  /\ nx_pc = "call"
  /\ nx_result' = find_next_page_url(nx_doc, nx_current)
  /\ nx_pc' = "done"
  /\ UNCHANGED <<nx_doc, nx_current, supVars, ddVars, cdVars, runVars>>

NextNext == NextPageCall

SpecNext == InitNext /\ [][NextNext]_vars

\* ---- C4

\* C4: find_next_page_url never returns current_url, whichever way the
\* candidate was found (rel="next" or anchor text).
C4_NeverCurrentUrl == nx_pc = "done" => nx_result # nx_current

\* ------------------------------------------------------- deduplication

\* a variant that never records a url as seen
DedupeFrom_noseen(rws, seen, uniq) == uniq \o rws

\* a variant that inserts each kept row at the front
RECURSIVE DedupeFrom_prepend(_, _, _)
DedupeFrom_prepend(rws, seen, uniq) ==
  IF rws = <<>> THEN uniq
  ELSE IF Head(rws).url \notin seen
       THEN DedupeFrom_prepend(Tail(rws), seen \cup {Head(rws).url}, <<Head(rws)>> \o uniq)
       ELSE DedupeFrom_prepend(Tail(rws), seen, uniq)

\* the loop "for r in all_rows" with its two accumulators
RECURSIVE DedupeFrom(_, _, _)
DedupeFrom(rws, seen, uniq) ==
  IF rws = <<>> THEN uniq
  ELSE IF Head(rws).url \notin seen
       THEN DedupeFrom(Tail(rws), seen \cup {Head(rws).url}, Append(uniq, Head(rws)))
       ELSE DedupeFrom(Tail(rws), seen, uniq)

Dedupe(rws) == DedupeFrom(rws, {}, <<>>)

DdRows ==
  {Row(<<t>>, <<>>, <<>>, <<>>, "Industrial Machinery", ProdUrl(u)) :
     t \in {"Lathe", "Drill"}, u \in {"p1", "p2", "p3"}}

InitDedup ==
  /\ dd_pc = "collected"
  /\ dd_rows \in SeqsUpTo(DdRows, MaxRows)
  /\ dd_unique = <<>>
  /\ dd_again = <<>>
  /\ SupIdle /\ CdIdle /\ NxIdle /\ RunIdle

\* main's deduplication of all_rows
DedupOnce ==
  /\ dd_pc = "collected"
  /\ dd_unique' = Dedupe(dd_rows)
  /\ dd_pc' = "unique"
  /\ UNCHANGED <<dd_rows, dd_again, supVars, cdVars, nxVars, runVars>>

\* the deduplication run on its own output
DedupTwice ==
  /\ dd_pc = "unique"
  /\ dd_again' = Dedupe(dd_unique)
  /\ dd_pc' = "again"
  /\ UNCHANGED <<dd_rows, dd_unique, supVars, cdVars, nxVars, runVars>>

NextDedup == DedupOnce \/ DedupTwice

SpecDedup == InitDedup /\ [][NextDedup]_vars

\* ---- C3

\* the positions of all_rows that hold the first row with their url
FirstPositions(rws) ==
  {i \in DOMAIN rws : \A j \in 1..(i - 1) : rws[j].url # rws[i].url}

\* the k-th smallest element of a finite set of numbers
KthOf(S, k) == CHOOSE x \in S : Cardinality({y \in S : y < x}) = k - 1

\* C3: in the deduplicated list url is unique, every collected url is
\* represented by exactly its first-collected row, and the kept rows stand in
\* the order in which they were collected.
C3_FirstSeenWins ==
  dd_pc \in {"unique", "again"} =>
    LET firsts == FirstPositions(dd_rows)
    IN  /\ \A i, j \in DOMAIN dd_unique : dd_unique[i].url = dd_unique[j].url => i = j
        /\ Len(dd_unique) = Cardinality(firsts)
        /\ \A k \in DOMAIN dd_unique : dd_unique[k] = dd_rows[KthOf(firsts, k)]

\* a list with a repeated url, whose later row differs from the first, was deduplicated
C3_Witness ==
  /\ dd_pc = "unique"
  /\ \E i, j \in DOMAIN dd_rows :
        i < j /\ dd_rows[i].url = dd_rows[j].url /\ dd_rows[i] # dd_rows[j]
  /\ Len(dd_unique) >= 2

\* ---- C8

\* C8: deduplicating the deduplicated list changes nothing, neither the rows
\* nor their order.
C8_DedupIdempotent == dd_pc = "again" => dd_again = dd_unique

\* the second pass ran on the output of a pass that had removed a row
C8_Witness ==
  /\ dd_pc = "again"
  /\ Len(dd_unique) < Len(dd_rows)
  /\ Len(dd_unique) >= 2

\* the URL texts handed to looks_like_supplier_url
SupNetlocs ==
  { <<"www.", "indiamart.com">>, <<"indiamart.com">>, <<"WWW.", "INDIAMART.COM">>,
    <<"not", "indiamart.com">>, <<"example.com">>, <<"www.", "indiamart.com", ":443">>,
    <<"indiamart.com", ".evil.io">>, <<"[", "indiamart.com">> }

SupPathAtoms == {"/", "proddetail", "search", "company", "acme", "ProdDetail"}

SupUrls ==
  {AbsUrl("https", n, p) : n \in SupNetlocs,
                           p \in {q \in SeqsUpTo(SupPathAtoms, MaxPathAtoms) : q = <<>> \/ Head(q) = "/"}}
  \cup {RelRef(p) : p \in {q \in SeqsUpTo(SupPathAtoms, 2) : q # <<>>}}
  \cup {EmptyStr}

InitSupplier ==
  /\ sup_pc = "call"
  /\ sup_url \in SupUrls
  /\ sup_result = FALSE
  /\ DdIdle /\ CdIdle /\ NxIdle /\ RunIdle

SupplierCall ==
  /\ sup_pc = "call"
  /\ sup_result' = looks_like_supplier_url(sup_url)
  /\ sup_pc' = "done"
  /\ UNCHANGED <<sup_url, ddVars, cdVars, nxVars, runVars>>

NextSupplier == SupplierCall

SpecSupplier == InitSupplier /\ [][NextSupplier]_vars

\* ---- C7

\* the path segments of a URL as a reader counts them: the non-empty pieces
\* between slashes, compared without regard to case
UrlSegments(url) == SelectSeq(SplitSlash(Lower(urlparse(url).path)), LAMBDA seg : seg # <<>>)

HostHasSuffix(url) ==
  LET n == Lower(urlparse(url).netloc) IN n # <<>> /\ Last(n) = "indiamart.com"

\* C7 as stated: false for a reserved first segment, true for any
\* single-segment path, false for a host without the site suffix, false for
\* an empty path, true for a first segment "company".
C7_AsStated ==
  sup_pc = "done" =>
    LET segs == UrlSegments(sup_url)
    IN  /\ (segs # <<>> /\ segs[1] \in ReservedSegments) => ~sup_result
        /\ Len(segs) = 1 => sup_result
        /\ ~HostHasSuffix(sup_url) => ~sup_result
        /\ segs = <<>> => ~sup_result
        /\ (segs # <<>> /\ segs[1] = <<"company">>) => sup_result

\* C7 amended: the three rejections hold as stated; the two acceptances hold
\* for a URL that urlparse accepts and whose netloc ends with the site suffix,
\* and the single-segment acceptance only for a segment that is not reserved.
C7_SupplierDecisionList ==
  sup_pc = "done" =>
    LET segs == UrlSegments(sup_url)
        hostOk == HostHasSuffix(sup_url) /\ ~urlparse(sup_url).raises
    IN  /\ (segs # <<>> /\ segs[1] \in ReservedSegments) => ~sup_result
        /\ ~HostHasSuffix(sup_url) => ~sup_result
        /\ segs = <<>> => ~sup_result
        /\ (hostOk /\ segs # <<>> /\ segs[1] = <<"company">>) => sup_result
        /\ (hostOk /\ Len(segs) = 1 /\ segs[1] \notin ReservedSegments) => sup_result

\* a bare-slug profile URL on the site has been classified as a supplier link
C7_Witness ==
  /\ sup_pc = "done"
  /\ sup_result
  /\ HostHasSuffix(sup_url)
  /\ UrlSegments(sup_url) = <<(<<"acme">>)>>

\* ---------------------------------------------------------------- the run

MAX_RETRIES == 4

RETRY_BACKOFF_BASE == 2

CATEGORY_URLS ==
  << [name |-> "Industrial Machinery", url |-> CatUrlA],
     [name |-> "Electronics", url |-> CatUrlB] >>

\* nodes of a literal document
El(parent, name) == [parent |-> parent, name |-> name, href |-> NoneStr, rel |-> FALSE, text |-> <<>>]

Anchor(parent, href, rel) == [parent |-> parent, name |-> "a", href |-> href, rel |-> rel, text |-> <<>>]

Text(parent, line) == [parent |-> parent, name |-> "#text", href |-> NoneStr, rel |-> FALSE, text |-> line]

DocOf(nodes) ==
  [parent |-> [i \in DOMAIN nodes |-> nodes[i].parent],
   name |-> [i \in DOMAIN nodes |-> nodes[i].name],
   href |-> [i \in DOMAIN nodes |-> nodes[i].href],
   rel |-> [i \in DOMAIN nodes |-> nodes[i].rel],
   text |-> [i \in DOMAIN nodes |-> nodes[i].text]]

\* two cards, the first with price, location and supplier link; rel="next" to page2.html
PageTwoCards ==
  DocOf(<< El(0, "[document]"), El(1, "body"),
           El(2, "div"), El(3, "div"), Anchor(4, ProdUrl("p1"), FALSE), Text(5, <<"Lathe">>),
           Text(3, <<"rupee", "500", "/", "Unit">>), Text(3, <<"Contact Supplier">>),
           Text(3, <<"Pune">>), Anchor(3, RelRef(<<"/", "company", "/", "acme">>), FALSE),
           Text(10, <<"Acme">>),
           El(2, "div"), Anchor(12, ProdUrl("p2"), FALSE), Text(13, <<"Drill">>),
           Text(12, <<"Rs", "900">>),
           Anchor(2, RelRef(<<"page2.html">>), TRUE), Text(16, <<"Next">>) >>)

\* links without a card: one directly in the body whose title starts with
\* "Next", one with a two-character title, two sharing a div without any price
PageMisses ==
  DocOf(<< El(0, "[document]"), El(1, "body"),
           Anchor(2, ProdUrl("p3"), FALSE), Text(3, <<"NextGen", "Drill">>),
           Anchor(2, ProdUrl("p4"), FALSE), Text(5, <<"ab">>),
           El(2, "div"), Anchor(7, ProdUrl("p1"), FALSE), Text(8, <<"Lathe">>),
           Anchor(7, ProdUrl("p5"), FALSE), Text(10, <<"Press">>) >>)

\* two links to the same product in one div with a price (text fallback);
\* rel="next" pointing at the first category page
PageFallback ==
  DocOf(<< El(0, "[document]"), El(1, "body"),
           El(2, "div"), Anchor(3, ProdUrl("p1"), FALSE), Text(4, <<"Lathe">>),
           Anchor(3, ProdUrl("p1"), FALSE), Text(6, <<"Lathe", "Pro">>),
           Text(3, <<"Rs", "900">>),
           Anchor(2, CatUrlA, TRUE), Text(9, <<"Prev">>) >>)

PageEmpty == DocOf(<< El(0, "[document]"), El(1, "body") >>)

\* three cards; a ">" anchor with a blank href, then a "Next >" anchor to page2.html
PageThreeCards ==
  DocOf(<< El(0, "[document]"), El(1, "body"),
           El(2, "div"), Anchor(3, ProdUrl("p1"), FALSE), Text(4, <<"Lathe">>),
           El(2, "div"), Anchor(6, ProdUrl("p2"), FALSE), Text(7, <<"Drill">>),
           El(2, "div"), Anchor(9, ProdUrl("p6"), FALSE), Text(10, <<"Press">>),
           Anchor(2, BlankStr, FALSE), Text(12, <<">">>),
           Anchor(2, RelRef(<<"page2.html">>), FALSE), Text(14, <<"Next", ">">>) >>)

PageDocs == <<PageTwoCards, PageMisses, PageFallback, PageEmpty, PageThreeCards>>

Pages == {CatUrlA, PageUrl2, CatUrlB}

\* page.content() after a successful page.goto(url), parsed
SoupAt(url) == IF url \in DOMAIN web THEN PageDocs[web[url]] ELSE PageEmpty

\* time.sleep argument after the failed attempt
BackoffWait_linear(failed) == RETRY_BACKOFF_BASE * (failed + 1)

BackoffWait(failed) == RETRY_BACKOFF_BASE ^ (failed + 1)

InitRun ==
  /\ pc = "main"
  /\ web \in [Pages -> DOMAIN PageDocs]
  /\ max_pages \in 0..MaxPagesArg
  /\ max_listings \in {NoneInt} \cup {Some(n) : n \in 0..MaxCap}
  /\ remaining = max_listings
  /\ cat_idx = 1
  /\ all_rows = <<>> /\ rows = <<>> /\ seen_pages = {} /\ current_url = EmptyStr
  /\ page_idx = 0 /\ cap = NoneInt /\ attempt = 0 /\ outcomes = <<>> /\ sleeps = <<>>
  /\ link_idx = 0 /\ cat_nav = <<>> /\ navigated = <<>> /\ end_reason = ""
  /\ unique = <<>> /\ written = FALSE /\ exit_code = 0
  /\ SupIdle /\ DdIdle /\ CdIdle /\ NxIdle

otherVars == <<supVars, ddVars, cdVars, nxVars>>

\* main: the next category is entered (scrape_category is called)
MainEnter ==
  /\ pc = "main"
  /\ cat_idx <= Len(CATEGORY_URLS)
  /\ ~(remaining.some /\ remaining.v <= 0)
  /\ rows' = <<>> /\ seen_pages' = {} /\ page_idx' = 0 /\ cat_nav' = <<>> /\ end_reason' = ""
  /\ current_url' = CATEGORY_URLS[cat_idx].url
  /\ cap' = remaining
  /\ pc' = "cat"
  /\ UNCHANGED <<web, max_listings, max_pages, cat_idx, remaining, all_rows, attempt, outcomes, sleeps,
                 link_idx, navigated, unique, written, exit_code, otherVars>>

\* main: the category loop ends, by the break on remaining <= 0 or by exhaustion
MainLeave ==
  /\ pc = "main"
  /\ \/ cat_idx <= Len(CATEGORY_URLS) /\ remaining.some /\ remaining.v <= 0
     \/ cat_idx > Len(CATEGORY_URLS)
  /\ pc' = "dedup"
  /\ UNCHANGED <<web, max_listings, max_pages, cat_idx, remaining, all_rows, rows, seen_pages, current_url,
                 page_idx, cap, attempt, outcomes, sleeps, link_idx, cat_nav, navigated,
                 end_reason, unique, written, exit_code, otherVars>>

\* a variant without the seen_pages test
PageLoopEnds_noseen == page_idx >= max_pages \/ ~Truthy(current_url)

\* scrape_category: the page loop is over (range exhausted, or the break)
PageLoopEnds == page_idx >= max_pages \/ ~Truthy(current_url) \/ current_url \in seen_pages

\* scrape_category: the page loop ends and rows is returned
PageLoopExit ==
  /\ pc = "cat"
  /\ PageLoopEnds
  /\ end_reason' = IF page_idx >= max_pages THEN "page_cap"
                    ELSE IF ~Truthy(current_url) THEN "no_next" ELSE "visited"
  /\ pc' = "ret"
  /\ UNCHANGED <<web, max_listings, max_pages, cat_idx, remaining, all_rows, rows, seen_pages, current_url,
                 page_idx, cap, attempt, outcomes, sleeps, link_idx, cat_nav, navigated,
                 unique, written, exit_code, otherVars>>

\* scrape_category: the next page is marked seen and goto_with_retries is called
PageLoopStep ==
  /\ pc = "cat"
  /\ ~PageLoopEnds
  /\ seen_pages' = seen_pages \cup {current_url}
  /\ page_idx' = page_idx + 1
  /\ attempt' = 0 /\ outcomes' = <<>> /\ sleeps' = <<>>
  /\ cat_nav' = Append(cat_nav, current_url)
  /\ navigated' = Append(navigated, current_url)
  /\ pc' = "goto"
  /\ UNCHANGED <<web, max_listings, max_pages, cat_idx, remaining, all_rows, rows, current_url, cap,
                 link_idx, end_reason, unique, written, exit_code, otherVars>>

\* goto_with_retries: page.goto succeeds; the page is parsed
GotoOk ==
  /\ pc = "goto"
  /\ outcomes' = Append(outcomes, "ok")
  /\ link_idx' = 0
  /\ pc' = "links"
  /\ UNCHANGED <<web, max_listings, max_pages, cat_idx, remaining, all_rows, rows, seen_pages, current_url,
                 page_idx, cap, attempt, sleeps, cat_nav, navigated, end_reason, unique,
                 written, exit_code, otherVars>>

\* goto_with_retries: page.goto fails with an attempt left; sleep and retry
GotoRetry ==
  /\ pc = "goto"
  /\ attempt < MAX_RETRIES - 1
  /\ outcomes' = Append(outcomes, "fail")
  /\ sleeps' = Append(sleeps, BackoffWait(attempt))
  /\ attempt' = attempt + 1
  /\ UNCHANGED <<pc, web, max_listings, max_pages, cat_idx, remaining, all_rows, rows, seen_pages,
                 current_url, page_idx, cap, link_idx, cat_nav, navigated, end_reason, unique,
                 written, exit_code, otherVars>>

\* a variant in which main logs the error and goes on with the next category
GotoRaise_nextcategory ==
  /\ pc = "goto"
  /\ attempt >= MAX_RETRIES - 1
  /\ outcomes' = Append(outcomes, "fail")
  /\ end_reason' = "nav_error"
  /\ cat_idx' = cat_idx + 1
  /\ pc' = "main"
  /\ UNCHANGED <<web, max_listings, max_pages, remaining, all_rows, rows, seen_pages, current_url,
                 page_idx, cap, attempt, sleeps, link_idx, cat_nav, navigated, unique, written,
                 exit_code, otherVars>>

\* goto_with_retries: the last attempt fails; the error is raised through
\* scrape_category to main, which calls sys.exit(1)
GotoRaise ==
  /\ pc = "goto"
  /\ attempt >= MAX_RETRIES - 1
  /\ outcomes' = Append(outcomes, "fail")
  /\ end_reason' = "nav_error"
  /\ exit_code' = 1
  /\ pc' = "exit"
  /\ UNCHANGED <<web, max_listings, max_pages, cat_idx, remaining, all_rows, rows, seen_pages, current_url,
                 page_idx, cap, attempt, sleeps, link_idx, cat_nav, navigated, unique, written,
                 otherVars>>

\* a variant that tests the listing cap only at the end of a page
CapReached_never(new_rows) == FALSE

\* scrape_category: the test after rows.append
CapReached(new_rows) == cap.some /\ Len(new_rows) >= cap.v

\* scrape_category: one product link of the page is processed
LinkStep ==
  /\ pc = "links"
  /\ LET soup == SoupAt(current_url)
         links == FindProductLinks(soup, 1)
     IN  /\ link_idx < Len(links)
         /\ LET new == LinkRows(soup, links[link_idx + 1], CATEGORY_URLS[cat_idx].name, current_url)
            IN  /\ rows' = rows \o new
                /\ pc' = IF new # <<>> /\ CapReached(rows \o new) THEN "ret" ELSE "links"
                /\ end_reason' = IF new # <<>> /\ CapReached(rows \o new)
                                  THEN "listing_cap" ELSE end_reason
  /\ link_idx' = link_idx + 1
  /\ UNCHANGED <<web, max_listings, max_pages, cat_idx, remaining, all_rows, seen_pages, current_url,
                 page_idx, cap, attempt, outcomes, sleeps, cat_nav, navigated, unique, written,
                 exit_code, otherVars>>

\* scrape_category: all links processed; current_url = find_next_page_url(soup, current_url)
NextPage ==
  /\ pc = "links"
  /\ link_idx = Len(FindProductLinks(SoupAt(current_url), 1))
  /\ current_url' = find_next_page_url(SoupAt(current_url), current_url)
  /\ pc' = "cat"
  /\ UNCHANGED <<web, max_listings, max_pages, cat_idx, remaining, all_rows, rows, seen_pages, page_idx,
                 cap, attempt, outcomes, sleeps, link_idx, cat_nav, navigated, end_reason,
                 unique, written, exit_code, otherVars>>

\* main: the rows of the category are stamped and added, remaining is lowered
CategoryDone ==
  /\ pc = "ret"
  /\ all_rows' = all_rows \o [i \in DOMAIN rows |-> rows[i] @@ [scraped_at |-> "run-start"]]
  /\ remaining' = IF remaining.some THEN Some(remaining.v - Len(rows)) ELSE remaining
  /\ cat_idx' = cat_idx + 1
  /\ pc' = "main"
  /\ UNCHANGED <<web, max_listings, max_pages, rows, seen_pages, current_url, page_idx, cap, attempt,
                 outcomes, sleeps, link_idx, cat_nav, navigated, end_reason, unique, written,
                 exit_code, otherVars>>

\* main: deduplicate by url and write the CSV
DedupAndWrite ==
  /\ pc = "dedup"
  /\ unique' = Dedupe(all_rows)
  /\ written' = TRUE
  /\ pc' = "done"
  /\ UNCHANGED <<web, max_listings, max_pages, cat_idx, remaining, all_rows, rows, seen_pages, current_url,
                 page_idx, cap, attempt, outcomes, sleeps, link_idx, cat_nav, navigated,
                 end_reason, exit_code, otherVars>>

NextRun ==
  \/ MainEnter \/ MainLeave
  \/ PageLoopExit \/ PageLoopStep
  \/ GotoOk \/ GotoRetry \/ GotoRaise
  \/ LinkStep \/ NextPage
  \/ CategoryDone \/ DedupAndWrite

Spec == InitRun /\ [][NextRun]_vars

\* ---- C1

\* C1: a goto_with_retries call issues at most 4 fetches, none after a
\* success; after the failed attempt i (from 0) it sleeps 2^(i+1) seconds if
\* an attempt remains, so four failures sleep 2, 4, 8 and then raise.
C1_BoundedBackoff ==
  LET n == Len(outcomes)
      fails == Cardinality({i \in DOMAIN outcomes : outcomes[i] = "fail"})
  IN  /\ n <= 4
      /\ \A i \in 1..(n - 1) : outcomes[i] = "fail"
      /\ (n >= 1 /\ outcomes[n] = "ok") => pc # "goto"
      /\ sleeps = [i \in 1..(IF fails < 3 THEN fails ELSE 3) |-> 2 ^ i]
      /\ fails = 4 => (sleeps = <<2, 4, 8>> /\ pc = "exit")
      /\ (pc = "goto") => fails < 4

\* all four attempts of a call have failed
C1_Witness == outcomes = <<"fail", "fail", "fail", "fail">> /\ pc = "exit"

\* ---- C2

\* the listings collected so far in the run
Collected == Len(all_rows) + (IF pc \in {"cat", "goto", "links", "ret"} THEN Len(rows) ELSE 0)

\* C2: with a cap N the listings collected never exceed N, and once N are
\* collected no further page is navigated, in this category or a later one.
C2_CapStopsRun ==
  /\ [](max_listings.some => Collected <= max_listings.v)
  /\ [][(max_listings.some /\ Collected >= max_listings.v) => navigated' = navigated]_vars

\* cap 2, the first category page holds three listings and a next link, more
\* pages were allowed: the run ended with 2 rows after navigating that page only
C2_Witness ==
  /\ pc = "done"
  /\ max_listings = Some(2) /\ max_pages >= 2
  /\ web[CatUrlA] = 5
  /\ Len(all_rows) = 2
  /\ navigated = <<CatUrlA>>

\* ---- C5

\* C5: when the last attempt of a navigation fails the run exits with status
\* 1; from then on nothing is navigated and nothing is written, whatever was
\* collected before.
C5_NavigationFailureIsFatal ==
  /\ [](pc = "exit" => (exit_code = 1 /\ ~written /\ unique = <<>>))
  /\ [][(pc = "goto" /\ attempt = 3 /\ outcomes' = Append(outcomes, "fail")) => pc' = "exit"]_vars
  /\ [][pc = "exit" => (pc' = "exit" /\ navigated' = navigated /\ written' = written)]_vars

\* the run exited in the second category, with rows of the first collected
C5_Witness == pc = "exit" /\ cat_idx = 2 /\ all_rows # <<>> /\ ~written

\* ---- C9

NoRepeat(s) == \A i, j \in DOMAIN s : s[i] = s[j] => i = j

\* C9 as stated: no URL is navigated twice in a traversal, at most max_pages
\* pages are navigated, and a traversal that has ended ended by no next URL,
\* a visited next URL, the page cap or the listing cap.
C9_AsStated ==
  /\ NoRepeat(cat_nav)
  /\ Len(cat_nav) <= max_pages
  /\ pc \in {"ret", "exit"} => end_reason \in {"no_next", "visited", "page_cap", "listing_cap"}

\* steps one pass of the page loop can take: the loop test, the attempts, one
\* step per product link, the next-page step
StepsPerPage ==
  LET most == CHOOSE n \in 0..50 :
                /\ \A i \in DOMAIN PageDocs : Len(FindProductLinks(PageDocs[i], 1)) <= n
                /\ \E i \in DOMAIN PageDocs : Len(FindProductLinks(PageDocs[i], 1)) = n
  IN  MAX_RETRIES + most + 3

\* a bound on the steps the traversal can still take
StepsLeft ==
  (max_pages - page_idx) * StepsPerPage
  + (CASE pc = "cat" -> 0
       [] pc = "goto" -> StepsPerPage - 1 - attempt
       [] pc = "links" -> StepsPerPage - 1 - MAX_RETRIES - link_idx
       [] OTHER -> 0)

InTraversal == pc \in {"cat", "goto", "links"}

\* the guard of some action of the traversal holds (the actions assign every
\* variable, so the action can then be taken)
CanStep ==
  \/ pc = "cat" /\ PageLoopEnds
  \/ pc = "cat" /\ ~PageLoopEnds
  \/ pc = "goto"
  \/ pc = "links" /\ link_idx < Len(FindProductLinks(SoupAt(current_url), 1))
  \/ pc = "links" /\ link_idx = Len(FindProductLinks(SoupAt(current_url), 1))

\* C9 amended: the same, with the fifth way out: a navigation that failed on
\* all its attempts.  Every traversal ends: inside a traversal a step is
\* always possible, and each step either leaves the traversal or lowers
\* StepsLeft, which is never negative.
C9_TraversalEnds ==
  /\ [](NoRepeat(cat_nav) /\ Len(cat_nav) <= max_pages)
  /\ [](pc = "ret" => end_reason \in {"no_next", "visited", "page_cap", "listing_cap"})
  /\ [](pc = "exit" => end_reason = "nav_error")
  /\ [](InTraversal => (StepsLeft >= 0 /\ CanStep))
  /\ [][InTraversal => (pc' \in {"ret", "exit"} \/ (InTraversal' /\ StepsLeft' < StepsLeft))]_vars

\* a traversal of two pages ended because the next link led back to a visited page
C9_Witness == pc = "ret" /\ end_reason = "visited" /\ Len(cat_nav) = 2

\* ---- C10

\* the ancestor levels of link a, below the body and within the limit, whose
\* text holds a currency mark
CurrencyLevels(d, a) ==
  LET P == Parents(d, a)
  IN  {l \in DOMAIN P :
         /\ l <= MaxAncestorLevels
         /\ \A i \in 1..l : d.name[P[i]] # "body"
         /\ \E m \in Nodes(d) : /\ P[l] \in Range(Parents(d, m))
                                 /\ d.name[m] = "#text"
                                 /\ \E w \in Range(d.text[m]) : w \in {"rupee", "Rs", "Rs."}}

\* C10: processing a product link whose title has 3 characters or more and
\* for which neither pass finds a card appends a listing with title, url and
\* category set and price, supplier and location empty, and goes on with the
\* page (or returns because the listing cap is reached), never to an error.
C10_MissStillListed ==
  [][(pc = "links" /\ link_idx' = link_idx + 1) =>
       LET soup == SoupAt(current_url)
           a == FindProductLinks(soup, 1)[link_idx + 1]
       IN  ( /\ StrLen(GetText(soup, a)) >= 3
             /\ SingleLinkLevels(soup, a) = {}
             /\ CurrencyLevels(soup, a) = {} )
           => /\ Len(rows') = Len(rows) + 1
              /\ SubSeq(rows', 1, Len(rows)) = rows
              /\ LET r == rows'[Len(rows')]
                 IN  /\ r.title = GetText(soup, a) /\ r.title # <<>>
                     /\ r.url = soup.href[a] /\ Truthy(r.url)
                     /\ r.category = CATEGORY_URLS[cat_idx].name
                     /\ r.price = <<>> /\ r.supplier = <<>> /\ r.location = <<>>
              /\ exit_code' = 0
              /\ pc' = "links" \/ (pc' = "ret" /\ cap.some /\ Len(rows') >= cap.v)]_vars

\* the link that stands directly in the body of the page of misses was listed
C10_Witness ==
  /\ pc = "links" /\ link_idx = 1
  /\ SoupAt(current_url) = PageMisses
  /\ rows # <<>>
  /\ rows[Len(rows)].url = ProdUrl("p3")
  /\ rows[Len(rows)].price = <<>>

====
